---- MODULE Spec2Model ----
(***************************************************************************)
(* A model of mathstuff: the two root finders of root_finding.py, the      *)
(* Legendre evaluator, bracket locator and Gauss-Legendre quadrature of    *)
(* gaussian_quadratures.py, and the bin-edge builders of histograms.py.    *)
(*                                                                         *)
(* Numbers.  The root finders work on Python floats.  A float has a finite *)
(* resolution: next to a value X the representable values are X + i*u for  *)
(* integers i, u being the spacing of floats at X.  The model measures     *)
(* every abscissa in units of u, so an abscissa is an integer i, and an    *)
(* arithmetic result that is no multiple of u is rounded to the nearest    *)
(* one, ties to even, as IEEE-754 does.  The tolerance eps is a positive   *)
(* real that may be smaller than u; it is measured in units of u/EpsDen.   *)
(* Function values are integers (the callables of the model take exactly   *)
(* representable values).  A float carries Precision significant bits, so  *)
(* the product, the difference and the quotient of the secant formula are  *)
(* each rounded to Precision significant bits, ties to even.               *)
(***************************************************************************)
EXTENDS Integers, Sequences, FiniteSets, TLC

VARIABLES
    alg, func, x_left, x_right, eps,       \* the call: which finder, and its arguments
    pc,                                    \* position: entry, loop, break, done, error
    xl, xr, fl, fr,                        \* the bisection bracket and its values
    x0, x1, f0, f1,                        \* the secant pair (hybrid only)
    x2, f2,                                \* the last candidate and its value
    ret, err,                              \* the returned value, the raised error
    evals, iters                           \* calls of func so far, loop iterations so far

rootVars == <<alg, func, x_left, x_right, eps, pc, xl, xr, fl, fr,
              x0, x1, f0, f1, x2, f2, ret, err, evals, iters>>

VARIABLES
    bin_fn,                                \* the call: binning_lin or binning_log
    x_min, x_max, bin_width, bin_factor, fuse_last_bin,     \* its arguments
    bin_pc,                                \* position: entry, done
    bins, bin_err                          \* the returned edges, the raised error

binVars == <<bin_fn, x_min, x_max, bin_width, bin_factor, fuse_last_bin,
             bin_pc, bins, bin_err>>

VARIABLES
    quad_fn,                               \* the call: legendre_polynomial,
                                           \* find_bisection_bounds or integrate_legendre
    order, abscissa,                       \* n, and legendre_polynomial's x
    polynomial,                            \* find_bisection_bounds' callable
    integrand, a_lo, b_hi,                 \* integrate_legendre's func, a and b
    quad_pc,                               \* position: entry, loop, done
    k_iter,                                \* the loop variable k of either loop
    polynomials,                           \* legendre_polynomial's list
    bounds,                                \* the brackets found
    quad_ret                               \* the value returned

quadVars == <<quad_fn, order, abscissa, polynomial, integrand, a_lo, b_hi,
              quad_pc, k_iter, polynomials, bounds, quad_ret>>

vars == <<rootVars, binVars, quadVars>>

----------------------------------------------------------------------------
(* Bounds of the model. *)

GridMax == 8        \* abscissas are the grid points 0..GridMax
MaxEps == 4         \* eps ranges over 1..MaxEps, in units of 1/EpsDen grid step
MaxIter == 6        \* bisection's loop is followed for at most MaxIter iterations;
                    \* the hybrid loop's are counted up to MaxIter

EpsDen == 2         \* eps = 1 is half a grid step: a tolerance below the resolution

Precision == 13     \* significant bits of a float (a double has 53)

----------------------------------------------------------------------------
(* Float arithmetic on the grid. *)

Abs(v) == IF v < 0 THEN 0 - v ELSE v

\* num/den (den > 0) rounded to the nearest integer, ties to the even one.
RoundHalfEven(num, den) ==
    LET q == num \div den
        r == num - q * den
    IN  IF 2 * r < den THEN q
        ELSE IF 2 * r > den THEN q + 1
        ELSE IF q % 2 = 0 THEN q ELSE q + 1

\* a + num/den (den > 0) rounded to the nearest integer, ties to the even one.
RoundHalfEvenFrom(a, num, den) ==
    LET q == num \div den
        r == num - q * den
    IN  IF 2 * r < den THEN a + q
        ELSE IF 2 * r > den THEN a + q + 1
        ELSE IF (a + q) % 2 = 0 THEN a + q ELSE a + q + 1

RECURSIVE Pow(_, _)
Pow(b, k) == IF k <= 0 THEN 1 ELSE b * Pow(b, k - 1)

\* A float's significand s: MinSignificand <= s < MaxSignificand.
MinSignificand == Pow(2, Precision - 1)
MaxSignificand == Pow(2, Precision)

RECURSIVE RoundSignificand(_, _)
\* The integer n >= 0 rounded to Precision significant bits, in multiples of
\* unit (a power of two, 1 at the call).
RoundSignificand(n, unit) ==
    IF n < MaxSignificand * unit THEN RoundHalfEven(n, unit) * unit
    ELSE RoundSignificand(n, 2 * unit)

\* The float nearest to the integer v: the result of a float product or
\* difference whose exact value is v.
FloatRound(v) ==
    IF v < 0 THEN 0 - RoundSignificand(0 - v, 1) ELSE RoundSignificand(v, 1)

RECURSIVE FloatQuotient(_, _, _, _)
\* The float nearest to n/d, for floats n, d > 0, as the fraction [n, d] with
\* d a power of two; up and down are 1 at the call.
FloatQuotient(n, d, up, down) ==
    IF n >= d * MaxSignificand THEN FloatQuotient(n, 2 * d, 2 * up, down)
    ELSE IF n < d * MinSignificand THEN FloatQuotient(2 * n, d, up, 2 * down)
    ELSE [n |-> RoundHalfEven(n, d) * up, d |-> down]

\* 0.5 * (a + b): the sum is rounded, the halving is exact.
Midpoint(a, b) == RoundHalfEven(a + b, 2)

\* abs(d) > eps, eps in units of 1/EpsDen grid step.
ExceedsEps(d, e) == EpsDen * Abs(d) > e

----------------------------------------------------------------------------
(* Exact fractions, for the abscissas and values of gaussian_quadratures.py: *)
(* a fraction is [n |-> numerator, d |-> denominator > 0] in lowest terms.   *)

RECURSIVE GCD(_, _)
GCD(a, b) == IF b = 0 THEN a ELSE GCD(b, a % b)

Rat(num, den) ==
    LET g == GCD(Abs(num), Abs(den))
        sgn == IF den < 0 THEN 0 - 1 ELSE 1
    IN  [n |-> (sgn * num) \div g, d |-> (sgn * den) \div g]

RInt(i) == [n |-> i, d |-> 1]

RAdd(p, q) ==
    LET l == (p.d \div GCD(p.d, q.d)) * q.d
    IN  Rat(p.n * (l \div p.d) + q.n * (l \div q.d), l)

RNeg(p) == [n |-> 0 - p.n, d |-> p.d]

RSub(p, q) == RAdd(p, RNeg(q))

RMul(p, q) ==
    LET g1 == GCD(Abs(p.n), q.d)
        g2 == GCD(Abs(q.n), p.d)
    IN  Rat((p.n \div g1) * (q.n \div g2), (p.d \div g2) * (q.d \div g1))

RDiv(p, q) == RMul(p, Rat(q.d, q.n))

RSign(p) == IF p.n > 0 THEN 1 ELSE IF p.n < 0 THEN 0 - 1 ELSE 0

RLess(p, q) == p.n * q.d < q.n * p.d

----------------------------------------------------------------------------
(* legendre_polynomial *)

\* LegendreNew dividing by k instead of k + 1.
LegendreNewDividedByK(k, x, list) ==
    RDiv(RSub(RMul(RMul(RInt(2 * k + 1), x), list[Len(list)]),
              RMul(RInt(k), list[Len(list) - 1])),
         RInt(k))

\* new = ((2k + 1) * x * polynomials[-1] - k * polynomials[-2]) / (k + 1)
LegendreNew(k, x, list) ==
    RDiv(RSub(RMul(RMul(RInt(2 * k + 1), x), list[Len(list)]),
              RMul(RInt(k), list[Len(list) - 1])),
         RInt(k + 1))

RECURSIVE LegendreLoop(_, _, _, _)
\* The list after the iterations k, k + 1, ..., n - 1 of the for loop.
LegendreLoop(x, n, k, list) ==
    IF k >= n THEN list
    ELSE LegendreLoop(x, n, k + 1, Append(list, LegendreNew(k, x, list)))

legendre_polynomial(x, n) ==
    IF n = 0 THEN RInt(1)
    ELSE IF n = 1 THEN x
    ELSE LET list == LegendreLoop(x, n, 1, <<RInt(1), x>>)
         IN  list[Len(list)]

----------------------------------------------------------------------------
(* The callables handed to the root finders: func(x).                      *)

Signs == {1, 0 - 1}
QuadC == {2, 5, 10, 20, 30, 50}
ParV == {3, 5, 8}
ParD == {4, 5, 12, 20}

Funcs ==
    [kind : {"lin", "cub"}, s : Signs, c : 0..(2 * GridMax)]
        \cup [kind : {"quad"}, s : Signs, c : QuadC]
        \cup [kind : {"par"}, s : Signs, c : ParV, d : ParD]
        \cup [kind : {"step"}, s : Signs, c : 1..GridMax]

\* The two values of a step callable: two floats of opposite sign whose
\* magnitudes are neighbours (in a double: -1.0 and 1.0 + 2^-52).
StepLow == 0 - MinSignificand
StepHigh == MinSignificand + 1

\* lin: s*(2x - c), root c/2.  cub: s*(2x - c)^3, root c/2.  quad: s*(x^2 - c),
\* root sqrt(c).  par: s*((2x - c)^2 - d), roots (c - sqrt(d))/2 and
\* (c + sqrt(d))/2, not monotone between them.  step: s*StepHigh from c on and
\* s*StepLow below c, a sign change without a root.  leg: legendre_polynomial with
\* func_args = (n,), on the grid of step 1/scale, its value in units of
\* 1/(2*scale)^n (a positive unit: signs and secant points are those of the
\* value itself).
Eval(f, x) ==
    CASE f.kind = "lin"  -> f.s * (2 * x - f.c)
      [] f.kind = "cub"  -> f.s * (2 * x - f.c) * (2 * x - f.c) * (2 * x - f.c)
      [] f.kind = "quad" -> f.s * (x * x - f.c)
      [] f.kind = "par"  -> f.s * ((2 * x - f.c) * (2 * x - f.c) - f.d)
      [] f.kind = "step" -> f.s * (IF x >= f.c THEN StepHigh ELSE StepLow)
      [] f.kind = "leg"  ->
            LET v == legendre_polynomial(Rat(x, f.scale), f.n)
            IN  v.n * (Pow(2 * f.scale, f.n) \div v.d)

\* | |y| - sqrt(sq) | <= t, for integers y, t >= 0 and sq >= 0.
NearSqrt(y, sq, t) ==
    /\ (Abs(y) + t) * (Abs(y) + t) >= sq
    /\ \/ Abs(y) - t <= 0
       \/ (Abs(y) - t) * (Abs(y) - t) <= sq

\* |r - a root of f| <= e, e in units of 1/EpsDen grid step (the root is real,
\* not rounded to the grid).  For a step callable: r is within e of the two
\* neighbouring floats between which the sign changes.
WithinEpsOfRoot(f, r, e) ==
    CASE f.kind \in {"lin", "cub"} -> Abs(EpsDen * (2 * r - f.c)) <= 2 * e
      [] f.kind = "quad" -> NearSqrt(EpsDen * r, EpsDen * EpsDen * f.c, e)
      [] f.kind = "par"  -> NearSqrt(EpsDen * (2 * r - f.c), EpsDen * EpsDen * f.d, 2 * e)
      [] f.kind = "step" -> /\ EpsDen * (f.c - 1) - e <= EpsDen * r
                            /\ EpsDen * r <= EpsDen * f.c + e

----------------------------------------------------------------------------
(* The steps both finders share. *)

\* BoundsError without the check of the right bound.
BoundsErrorNoRightCheck(l, r) ==
    IF l = 0 THEN "Left bound is a root."
    ELSE IF l * r > 0 THEN "Function has same sign at left and right bounds."
    ELSE "none"

\* The check on the bounds: the error raised, or "none".
BoundsError(l, r) ==
    IF l = 0 THEN "Left bound is a root."
    ELSE IF r = 0 THEN "Right bound is a root."
    ELSE IF l * r > 0 THEN "Function has same sign at left and right bounds."
    ELSE "none"

\* UpdateBounds replacing the end of the other sign.
UpdateBoundsWrongEnd(b, c, v) ==
    IF b.fl * v > 0 THEN [b EXCEPT !.xr = c, !.fr = v]
    ELSE IF b.fr * v > 0 THEN [b EXCEPT !.xl = c, !.fl = v]
    ELSE [b EXCEPT !.brk = TRUE]

\* The bracket after the candidate c with value v: the end whose value has a
\* positive product with v is replaced, and with neither the loop breaks.
UpdateBounds(b, c, v) ==
    IF b.fl * v > 0 THEN [b EXCEPT !.xl = c, !.fl = v]
    ELSE IF b.fr * v > 0 THEN [b EXCEPT !.xr = c, !.fr = v]
    ELSE [b EXCEPT !.brk = TRUE]

Bracket == [xl |-> xl, xr |-> xr, fl |-> fl, fr |-> fr, brk |-> FALSE]

\* The secant point x1 - f1 * (x1 - x0) / (f1 - f0), for f1 - f0 # 0, as the
\* code computes it: x1 - x0 is exact (two floats of one binade), the product,
\* the difference of the values and the quotient are floats, and the last
\* subtraction is rounded to the grid.
\* (Each intermediate float is bound as the element of a singleton, which has
\* it computed once.)
SecantPoint(a0, a1, v0, v1) ==
    CHOOSE x \in
        {IF (p < 0) = (q < 0) THEN RoundHalfEvenFrom(a1, 0 - t.n, t.d)
                              ELSE RoundHalfEvenFrom(a1, t.n, t.d) :
            <<p, q, t>> \in
                {<<p, q, IF p = 0 THEN [n |-> 0, d |-> 1]
                         ELSE FloatQuotient(Abs(p), Abs(q), 1, 1)>> :
                    <<p, q>> \in {<<FloatRound(v1 * (a1 - a0)),
                                    FloatRound(v1 - v0)>>}}} :
        TRUE

\* SecantCandidate without the check against the right end of the bracket.
SecantCandidateNoUpperCheck(a0, a1, v0, v1, l, r) ==
    IF v1 - v0 = 0 THEN Midpoint(l, r)
    ELSE LET c == SecantPoint(a0, a1, v0, v1)
         IN  IF c < l THEN Midpoint(l, r) ELSE c

\* The candidate of the hybrid finder: the secant point through the last two
\* iterates, or the midpoint of the bracket when the secant point is undefined
\* (ZeroDivisionError) or outside the bracket.
SecantCandidate(a0, a1, v0, v1, l, r) ==
    IF v1 - v0 = 0 THEN Midpoint(l, r)
    ELSE LET c == SecantPoint(a0, a1, v0, v1)
         IN  IF c < l \/ c > r THEN Midpoint(l, r) ELSE c

----------------------------------------------------------------------------
(* bisection *)

BisectionEntry ==
    /\ alg = "bisection"
    /\ pc = "entry"
    /\ LET l == Eval(func, x_left)
           r == Eval(func, x_right)
       IN  /\ xl' = x_left
           /\ xr' = x_right
           /\ fl' = l
           /\ fr' = r
           /\ evals' = 2
           /\ err' = BoundsError(l, r)
           /\ pc' = IF BoundsError(l, r) = "none" THEN "loop" ELSE "error"
    /\ UNCHANGED <<alg, func, x_left, x_right, eps, x0, x1, f0, f1, x2, f2, ret, iters>>
    /\ UNCHANGED <<binVars, quadVars>>

BisectionIter ==
    /\ alg = "bisection"
    /\ pc = "loop"
    /\ ExceedsEps(xr - xl, eps)
    /\ iters < MaxIter
    /\ LET c == Midpoint(xl, xr)
           v == Eval(func, c)
           b == UpdateBounds(Bracket, c, v)
       IN  /\ x2' = c
           /\ f2' = v
           /\ xl' = b.xl
           /\ fl' = b.fl
           /\ xr' = b.xr
           /\ fr' = b.fr
           /\ pc' = IF b.brk THEN "break" ELSE "loop"
    /\ evals' = evals + 1
    /\ iters' = iters + 1
    /\ UNCHANGED <<alg, func, x_left, x_right, eps, x0, x1, f0, f1, ret, err>>
    /\ UNCHANGED <<binVars, quadVars>>

BisectionReturn ==
    /\ alg = "bisection"
    /\ \/ pc = "break"
       \/ pc = "loop" /\ ~ExceedsEps(xr - xl, eps)
    /\ ret' = Midpoint(xr, xl)
    /\ pc' = "done"
    /\ UNCHANGED <<alg, func, x_left, x_right, eps, xl, xr, fl, fr,
                   x0, x1, f0, f1, x2, f2, err, evals, iters>>
    /\ UNCHANGED <<binVars, quadVars>>

----------------------------------------------------------------------------
(* hybrid_secant_bisection *)

HybridEntry ==
    /\ alg = "hybrid"
    /\ pc = "entry"
    /\ LET l == Eval(func, x_left)
           r == Eval(func, x_right)
       IN  /\ xl' = x_left
           /\ xr' = x_right
           /\ fl' = l
           /\ fr' = r
           /\ evals' = 2
           /\ err' = BoundsError(l, r)
           /\ IF BoundsError(l, r) = "none"
              THEN /\ pc' = "loop"
                   /\ x0' = x_left
                   /\ x1' = x_right
                   /\ f0' = l
                   /\ f1' = r
              ELSE /\ pc' = "error"
                   /\ UNCHANGED <<x0, x1, f0, f1>>
    /\ UNCHANGED <<alg, func, x_left, x_right, eps, x2, f2, ret, iters>>
    /\ UNCHANGED <<binVars, quadVars>>

\* The locals of hybrid_secant_bisection at the head of its loop.
HybridLocals ==
    [xl |-> xl, xr |-> xr, fl |-> fl, fr |-> fr,
     x0 |-> x0, x1 |-> x1, f0 |-> f0, f1 |-> f1, brk |-> FALSE]

\* One iteration of the loop: the candidate, its value, the new secant pair,
\* the new bracket.  (The candidate is bound as the element of a singleton,
\* which has it computed once.)
HybridStep(f, st) ==
    CHOOSE t \in
        {UpdateBounds([st EXCEPT !.x0 = st.x1, !.f0 = st.f1,
                                 !.x1 = c, !.f1 = Eval(f, c)],
                      c, Eval(f, c)) :
            c \in {SecantCandidate(st.x0, st.x1, st.f0, st.f1, st.xl, st.xr)}} :
        TRUE

\* The loop has no iteration cap and the action has none: it is enabled as
\* long as the loop condition holds.  evals and iters stop counting at MaxIter
\* iterations.
HybridIter ==
    /\ alg = "hybrid"
    /\ pc = "loop"
    /\ ExceedsEps(x0 - x1, eps)
    /\ \E t \in {HybridStep(func, HybridLocals)} :
           /\ x2' = t.x1
           /\ f2' = t.f1
           /\ x0' = t.x0
           /\ f0' = t.f0
           /\ x1' = t.x1
           /\ f1' = t.f1
           /\ xl' = t.xl
           /\ fl' = t.fl
           /\ xr' = t.xr
           /\ fr' = t.fr
           /\ pc' = IF t.brk THEN "break" ELSE "loop"
    /\ evals' = IF iters < MaxIter THEN evals + 1 ELSE evals
    /\ iters' = IF iters < MaxIter THEN iters + 1 ELSE iters
    /\ UNCHANGED <<alg, func, x_left, x_right, eps, ret, err>>
    /\ UNCHANGED <<binVars, quadVars>>

HybridReturn ==
    /\ alg = "hybrid"
    /\ \/ pc = "break"
       \/ pc = "loop" /\ ~ExceedsEps(x0 - x1, eps)
    /\ ret' = Midpoint(x0, x1)
    /\ pc' = "done"
    /\ UNCHANGED <<alg, func, x_left, x_right, eps, xl, xr, fl, fr,
                   x0, x1, f0, f1, x2, f2, err, evals, iters>>
    /\ UNCHANGED <<binVars, quadVars>>

----------------------------------------------------------------------------
(* hybrid_secant_bisection as integrate_legendre calls it: the whole call. *)

RECURSIVE HybridLoop(_, _, _, _)
\* The locals when the loop is left; it is followed for at most fuel iterations.
HybridLoop(f, st, e, fuel) ==
    IF st.brk \/ ~ExceedsEps(st.x0 - st.x1, e) \/ fuel = 0 THEN st
    ELSE HybridLoop(f, HybridStep(f, st), e, fuel - 1)

\* [err, ret, ended]: the error raised or "none", the value returned, and
\* whether the loop was left within MaxIter iterations.
hybrid_secant_bisection(f, l, r, e) ==
    LET vl == Eval(f, l)
        vr == Eval(f, r)
        st == HybridLoop(f, [xl |-> l, xr |-> r, fl |-> vl, fr |-> vr,
                             x0 |-> l, x1 |-> r, f0 |-> vl, f1 |-> vr,
                             brk |-> FALSE], e, MaxIter)
    IN  IF BoundsError(vl, vr) # "none"
        THEN [err |-> BoundsError(vl, vr), ret |-> 0, ended |-> TRUE]
        ELSE [err |-> "none", ret |-> Midpoint(st.x0, st.x1),
              ended |-> st.brk \/ ~ExceedsEps(st.x0 - st.x1, e)]

----------------------------------------------------------------------------
(* find_bisection_bounds *)

MaxOrder == 5       \* n ranges over 0..MaxOrder
MaxK == 3           \* the grid is refined up to k = MaxK

\* np.linspace(-1, 1, m + 1)
Linspace(m) ==
    IF m = 0 THEN <<RInt(0 - 1)>>
    ELSE [i \in 1..(m + 1) |-> Rat(2 * (i - 1) - m, m)]

RECURSIVE Clustered(_, _)
\* A callable other than legendre_polynomial: (4x - 1)(4x - 2)...(4x - n), whose
\* roots 1/4, 2/4, ..., n/4 the coarsest grid does not separate.
Clustered(x, n) ==
    IF n = 0 THEN RInt(1)
    ELSE RMul(Clustered(x, n - 1), RSub(RMul(RInt(4), x), RInt(n)))

ClusteredOrders == 1..3

\* polynomial(x, n)
Polynomial(p, x, n) ==
    IF p = "legendre_polynomial" THEN legendre_polynomial(x, n)
    ELSE Clustered(x, n)

RECURSIVE MaskedPairsSwapped(_, _, _)
\* MaskedPairs with the two ends of each pair exchanged.
MaskedPairsSwapped(grid, values, i) ==
    IF i >= Len(grid) THEN <<>>
    ELSE (IF RSign(values[i]) * RSign(values[i + 1]) < 0
          THEN <<(<<grid[i + 1], grid[i]>>)>>
          ELSE <<>>) \o MaskedPairsSwapped(grid, values, i + 1)

RECURSIVE MaskedPairs(_, _, _)
\* zip(bounds[:-1][mask], bounds[1:][mask]) with mask = values[:-1] * values[1:] < 0,
\* from the pair of index i on.
MaskedPairs(grid, values, i) ==
    IF i >= Len(grid) THEN <<>>
    ELSE (IF RSign(values[i]) * RSign(values[i + 1]) < 0
          THEN <<(<<grid[i], grid[i + 1]>>)>>
          ELSE <<>>) \o MaskedPairs(grid, values, i + 1)

\* The sign-changing pairs of the grid of k * n + 1 points.
Brackets(p, n, k) ==
    LET grid == Linspace(k * n)
        values == [i \in 1..Len(grid) |-> Polynomial(p, grid[i], n)]
    IN  MaskedPairs(grid, values, 1)

RECURSIVE FindBoundsFrom(_, _, _)
\* The while loop from k on: [found, bounds]; it is followed up to k = MaxK.
FindBoundsFrom(p, n, k) ==
    IF Len(Brackets(p, n, k)) = n THEN [found |-> TRUE, bounds |-> Brackets(p, n, k)]
    ELSE IF k >= MaxK THEN [found |-> FALSE, bounds |-> <<>>]
    ELSE FindBoundsFrom(p, n, k + 1)

find_bisection_bounds(n, p) == FindBoundsFrom(p, n, 1)

----------------------------------------------------------------------------
(* integrate_legendre *)

GridScale == 4      \* the root finder's grid has step 1/GridScale here
DefaultEps == 1     \* _EPS, a tolerance below the step of the grid

Coefficients == (0 - 1)..1
Limits == (0 - 1)..2

\* func(x) for the integrands of the model, c0 + c1 * x.
FuncValue(f, x) == RAdd(RInt(f.c0), RMul(RInt(f.c1), x))

RECURSIVE SumProducts(_, _, _)
\* sum(weights * func_values), from index i on.
SumProducts(w, v, i) ==
    IF i > Len(w) THEN RInt(0)
    ELSE RAdd(RMul(w[i], v[i]), SumProducts(w, v, i + 1))

\* The roots integrate_legendre finds for the brackets bnds.
Roots(n, bnds) ==
    [i \in 1..Len(bnds) |->
        hybrid_secant_bisection([kind |-> "leg", n |-> n, scale |-> GridScale],
                                (bnds[i][1].n * GridScale) \div bnds[i][1].d,
                                (bnds[i][2].n * GridScale) \div bnds[i][2].d,
                                DefaultEps)]

\* The value integrate_legendre returns, from the roots found.
IntegrateValue(f, n, a, b, roots) ==
    LET r == [i \in 1..Len(roots) |-> Rat(roots[i].ret, GridScale)]
        weights == [i \in 1..Len(r) |->
                       RDiv(RMul(RInt(2), RSub(RInt(1), RMul(r[i], r[i]))),
                            RMul(RMul(RInt(n), legendre_polynomial(r[i], n - 1)),
                                 RMul(RInt(n), legendre_polynomial(r[i], n - 1))))]
        func_values == [i \in 1..Len(r) |->
                           FuncValue(f, RMul(Rat(1, 2),
                                             RAdd(RMul(RInt(b - a), r[i]), RInt(a + b))))]
    IN  RMul(RMul(Rat(1, 2), RInt(b - a)), SumProducts(weights, func_values, 1))

----------------------------------------------------------------------------
(* The calls of gaussian_quadratures.py, step by step. *)

LegendreEntry ==
    /\ quad_fn = "legendre_polynomial"
    /\ quad_pc = "entry"
    /\ IF order = 0
       THEN quad_ret' = RInt(1) /\ quad_pc' = "done" /\ UNCHANGED <<polynomials, k_iter>>
       ELSE IF order = 1
            THEN quad_ret' = abscissa /\ quad_pc' = "done"
                 /\ UNCHANGED <<polynomials, k_iter>>
            ELSE /\ polynomials' = <<RInt(1), abscissa>>
                 /\ k_iter' = 1
                 /\ quad_pc' = "loop"
                 /\ UNCHANGED quad_ret
    /\ UNCHANGED <<quad_fn, order, abscissa, polynomial, integrand, a_lo, b_hi, bounds>>
    /\ UNCHANGED <<rootVars, binVars>>

LegendreStep ==
    /\ quad_fn = "legendre_polynomial"
    /\ quad_pc = "loop"
    /\ k_iter < order
    /\ polynomials' = Append(polynomials, LegendreNew(k_iter, abscissa, polynomials))
    /\ k_iter' = k_iter + 1
    /\ UNCHANGED <<quad_fn, order, abscissa, polynomial, integrand, a_lo, b_hi,
                   quad_pc, bounds, quad_ret>>
    /\ UNCHANGED <<rootVars, binVars>>

LegendreReturn ==
    /\ quad_fn = "legendre_polynomial"
    /\ quad_pc = "loop"
    /\ k_iter >= order
    /\ quad_ret' = polynomials[Len(polynomials)]
    /\ quad_pc' = "done"
    /\ UNCHANGED <<quad_fn, order, abscissa, polynomial, integrand, a_lo, b_hi,
                   k_iter, polynomials, bounds>>
    /\ UNCHANGED <<rootVars, binVars>>

FindBoundsEntry ==
    /\ quad_fn = "find_bisection_bounds"
    /\ quad_pc = "entry"
    /\ k_iter' = 1
    /\ quad_pc' = "loop"
    /\ UNCHANGED <<quad_fn, order, abscissa, polynomial, integrand, a_lo, b_hi,
                   polynomials, bounds, quad_ret>>
    /\ UNCHANGED <<rootVars, binVars>>

FindBoundsReturn ==
    /\ quad_fn = "find_bisection_bounds"
    /\ quad_pc = "loop"
    /\ Len(Brackets(polynomial, order, k_iter)) = order
    /\ bounds' = Brackets(polynomial, order, k_iter)
    /\ quad_pc' = "done"
    /\ UNCHANGED <<quad_fn, order, abscissa, polynomial, integrand, a_lo, b_hi,
                   k_iter, polynomials, quad_ret>>
    /\ UNCHANGED <<rootVars, binVars>>

FindBoundsRefine ==
    /\ quad_fn = "find_bisection_bounds"
    /\ quad_pc = "loop"
    /\ Len(Brackets(polynomial, order, k_iter)) # order
    /\ k_iter < MaxK
    /\ k_iter' = k_iter + 1
    /\ UNCHANGED <<quad_fn, order, abscissa, polynomial, integrand, a_lo, b_hi,
                   quad_pc, polynomials, bounds, quad_ret>>
    /\ UNCHANGED <<rootVars, binVars>>

IntegrateLegendre ==
    /\ quad_fn = "integrate_legendre"
    /\ quad_pc = "entry"
    /\ LET found == find_bisection_bounds(order, "legendre_polynomial")
           roots == Roots(order, found.bounds)
       IN  /\ found.found
           /\ \A i \in 1..Len(roots) : roots[i].ended /\ roots[i].err = "none"
           /\ bounds' = found.bounds
           /\ quad_ret' = IntegrateValue(integrand, order, a_lo, b_hi, roots)
    /\ quad_pc' = "done"
    /\ UNCHANGED <<quad_fn, order, abscissa, polynomial, integrand, a_lo, b_hi,
                   k_iter, polynomials>>
    /\ UNCHANGED <<rootVars, binVars>>

\* The abscissas legendre_polynomial is called at.
Abscissas == {Rat(i, j) : i \in (0 - 3)..3, j \in 1..3}

\* The orders whose quadrature nodes the grid of step 1/GridScale holds exactly.
IntegrateOrders == {1}

QuadInit ==
    /\ quad_fn \in {"legendre_polynomial", "find_bisection_bounds", "integrate_legendre"}
    /\ \/ /\ quad_fn = "legendre_polynomial"
          /\ order \in 0..MaxOrder
          /\ abscissa \in Abscissas
          /\ polynomial = "none"
          /\ integrand = [c0 |-> 0, c1 |-> 0] /\ a_lo = 0 /\ b_hi = 0
       \/ /\ quad_fn = "find_bisection_bounds"
          /\ polynomial \in {"legendre_polynomial", "clustered"}
          /\ order \in IF polynomial = "clustered" THEN ClusteredOrders ELSE 0..MaxOrder
          /\ abscissa = RInt(0)
          /\ integrand = [c0 |-> 0, c1 |-> 0] /\ a_lo = 0 /\ b_hi = 0
       \/ /\ quad_fn = "integrate_legendre"
          /\ order \in IntegrateOrders
          /\ integrand \in [c0 : Coefficients, c1 : Coefficients]
          /\ a_lo \in Limits
          /\ b_hi \in Limits
          /\ abscissa = RInt(0)
          /\ polynomial = "none"
    /\ quad_pc = "entry"
    /\ k_iter = 0
    /\ polynomials = <<>>
    /\ bounds = <<>>
    /\ quad_ret = RInt(0)

\* No call of gaussian_quadratures.py is under way.
QuadIdle ==
    /\ quad_fn = "none"
    /\ order = 0
    /\ abscissa = RInt(0)
    /\ polynomial = "none"
    /\ integrand = [c0 |-> 0, c1 |-> 0] /\ a_lo = 0 /\ b_hi = 0
    /\ quad_pc = "idle"
    /\ k_iter = 0
    /\ polynomials = <<>>
    /\ bounds = <<>>
    /\ quad_ret = RInt(0)

QuadNext ==
    \/ LegendreEntry
    \/ LegendreStep
    \/ LegendreReturn
    \/ FindBoundsEntry
    \/ FindBoundsReturn
    \/ FindBoundsRefine
    \/ IntegrateLegendre

----------------------------------------------------------------------------
(* histograms.py: binning_lin and binning_log.  The arguments of the model *)
(* are integers, which floats hold exactly, and so are all the edges.      *)

BinMax == 10        \* x_max ranges over 0..BinMax
MinMax == 2         \* x_min ranges over -1..MinMax
WidthMax == 3       \* bin_width ranges over -1..WidthMax
FactorMax == 3      \* bin_factor ranges over 0..FactorMax

RangeError == "x_max must be larger than x_min."
WidthError == "bin_width must be positive."
OriginError == "x_min must be positive."
FactorError == "bin_factor must be larger than 1."
OverflowError == "cannot convert float infinity to integer"

Last(q) == q[Len(q)]

\* bins[:-2] followed by bins[-1].
FuseLast(q) == Append(SubSeq(q, 1, Len(q) - 2), Last(q))

\* The control of binning_lin's requirements: the error raised, or "none".
LinRequirements(lo, hi, w) ==
    IF hi < lo THEN RangeError
    ELSE IF w <= 0 THEN WidthError
    ELSE "none"

\* LinEdges fusing whatever the number of edges.
LinEdgesFuseAlways(lo, hi, w, fuse) ==
    LET num_bins == (hi - lo) \div w
        grid == [i \in 1..(num_bins + 1) |-> (i - 1) * w + lo]
    IN  IF Last(grid) < hi
        THEN LET full == Append(grid, hi)
             IN  IF fuse THEN FuseLast(full) ELSE full
        ELSE grid

\* The edges binning_lin returns when its requirements hold.
LinEdges(lo, hi, w, fuse) ==
    LET num_bins == (hi - lo) \div w
        grid == [i \in 1..(num_bins + 1) |-> (i - 1) * w + lo]
    IN  IF Last(grid) < hi
        THEN LET full == Append(grid, hi)
             IN  IF fuse /\ Len(full) > 2 THEN FuseLast(full) ELSE full
        ELSE grid

\* int(1 + log(range / w) / log(factor)) for range > 0, w > 0, factor > 1: int()
\* truncates towards zero.
MaxBound(range, w, factor) ==
    IF range >= w
    THEN 1 + CHOOSE m \in 0..range :
                 /\ w * Pow(factor, m) <= range
                 /\ w * Pow(factor, m + 1) > range
    ELSE 0 - CHOOSE j \in 0..w :
                 /\ j > 0 => range * Pow(factor, j + 1) <= w
                 /\ range * Pow(factor, j + 2) > w

\* np.cumsum(w * factor ** k for k = 0..n): the entry of index k (from 0).
CumSum(w, factor, k) == w * ((Pow(factor, k + 1) - 1) \div (factor - 1))

\* The control of binning_log's requirements: the error raised, or "none".
LogRequirements(lo, hi, w, factor) ==
    IF lo <= 0 THEN OriginError
    ELSE IF hi < lo THEN RangeError
    ELSE IF w <= 0 THEN WidthError
    ELSE IF factor <= 1 THEN FactorError
    ELSE "none"

RECURSIVE Select(_, _, _, _, _)
\* bins_list[mask] + x_min, for the entries k..n of bins_list.
Select(w, factor, k, n, range) ==
    IF k > n THEN <<>>
    ELSE IF CumSum(w, factor, k) < range
         THEN <<CumSum(w, factor, k)>> \o Select(w, factor, k + 1, n, range)
         ELSE Select(w, factor, k + 1, n, range)

\* The edges binning_log returns when its requirements hold and x_max > x_min.
LogEdges(lo, hi, w, factor, fuse) ==
    LET max_bound == MaxBound(hi - lo, w, factor)
        inner == Select(w, factor, 0, max_bound, hi - lo)
        full == <<lo>> \o [i \in 1..Len(inner) |-> inner[i] + lo] \o <<hi>>
        isEdge == \E k \in 0..max_bound : CumSum(w, factor, k) + lo = hi
    IN  IF Len(full) > 2 /\ ~isEdge /\ fuse THEN FuseLast(full) ELSE full

BinningLin ==
    /\ bin_fn = "binning_lin"
    /\ bin_pc = "entry"
    /\ bin_err' = LinRequirements(x_min, x_max, bin_width)
    /\ bins' = IF LinRequirements(x_min, x_max, bin_width) = "none"
               THEN LinEdges(x_min, x_max, bin_width, fuse_last_bin)
               ELSE <<>>
    /\ bin_pc' = "done"
    /\ UNCHANGED <<bin_fn, x_min, x_max, bin_width, bin_factor, fuse_last_bin>>
    /\ UNCHANGED <<rootVars, quadVars>>

\* With x_max = x_min, np.log(0) is -inf and int() of it raises OverflowError.
BinningLog ==
    /\ bin_fn = "binning_log"
    /\ bin_pc = "entry"
    /\ LET e == LogRequirements(x_min, x_max, bin_width, bin_factor)
       IN  IF e # "none"
           THEN bin_err' = e /\ bins' = <<>>
           ELSE IF x_max = x_min
                THEN bin_err' = OverflowError /\ bins' = <<>>
                ELSE /\ bin_err' = "none"
                     /\ bins' = LogEdges(x_min, x_max, bin_width, bin_factor,
                                         fuse_last_bin)
    /\ bin_pc' = "done"
    /\ UNCHANGED <<bin_fn, x_min, x_max, bin_width, bin_factor, fuse_last_bin>>
    /\ UNCHANGED <<rootVars, quadVars>>

BinInit ==
    /\ bin_fn \in {"binning_lin", "binning_log"}
    /\ x_min \in (0 - 1)..MinMax
    /\ x_max \in 0..BinMax
    /\ bin_width \in (0 - 1)..WidthMax
    /\ bin_factor \in IF bin_fn = "binning_log" THEN 0..FactorMax ELSE {0}
    /\ fuse_last_bin \in BOOLEAN
    /\ bin_pc = "entry"
    /\ bins = <<>>
    /\ bin_err = "none"

\* No call of a binning function is under way.
BinIdle ==
    /\ bin_fn = "none"
    /\ x_min = 0 /\ x_max = 0 /\ bin_width = 0 /\ bin_factor = 0
    /\ fuse_last_bin = FALSE
    /\ bin_pc = "idle"
    /\ bins = <<>>
    /\ bin_err = "none"

BinNext ==
    \/ BinningLin
    \/ BinningLog

----------------------------------------------------------------------------
(* The root finders' specification: one call of either finder, on any      *)
(* arguments of the model's ranges.  Locals not yet bound are held at 0    *)
(* and are never read before the code assigns them.                        *)

RootInit ==
    /\ alg \in {"bisection", "hybrid"}
    /\ func \in Funcs
    /\ x_left \in 0..GridMax
    /\ x_right \in 0..GridMax
    /\ eps \in 1..MaxEps
    /\ pc = "entry"
    /\ xl = 0 /\ xr = 0 /\ fl = 0 /\ fr = 0
    /\ x0 = 0 /\ x1 = 0 /\ f0 = 0 /\ f1 = 0
    /\ x2 = 0 /\ f2 = 0
    /\ ret = 0
    /\ err = "none"
    /\ evals = 0
    /\ iters = 0

\* No call of a root finder is under way.
RootIdle ==
    /\ alg = "none"
    /\ func = [kind |-> "none"]
    /\ x_left = 0 /\ x_right = 0 /\ eps = 0
    /\ pc = "idle"
    /\ xl = 0 /\ xr = 0 /\ fl = 0 /\ fr = 0
    /\ x0 = 0 /\ x1 = 0 /\ f0 = 0 /\ f1 = 0
    /\ x2 = 0 /\ f2 = 0
    /\ ret = 0
    /\ err = "none"
    /\ evals = 0
    /\ iters = 0

RootNext ==
    \/ BisectionEntry
    \/ BisectionIter
    \/ BisectionReturn
    \/ HybridEntry
    \/ HybridIter
    \/ HybridReturn

Init == RootInit /\ BinIdle /\ QuadIdle

Spec == Init /\ [][RootNext]_vars

\* The same, with the progress of a running call of hybrid_secant_bisection:
\* the interpreter executes the next statement of a call that has one.
LiveSpec ==
    /\ Init
    /\ [][RootNext]_vars
    /\ WF_vars(HybridEntry)
    /\ WF_vars(HybridIter)
    /\ WF_vars(HybridReturn)

\* The binning functions' specification: one call of either, on any arguments
\* of the model's ranges.
InitBin == BinInit /\ RootIdle /\ QuadIdle

BinSpec == InitBin /\ [][BinNext]_vars

\* The specification of gaussian_quadratures.py: one call of one of its
\* functions, on any arguments of the model's ranges.
InitQuad == QuadInit /\ RootIdle /\ BinIdle

QuadSpec == InitQuad /\ [][QuadNext]_vars

----------------------------------------------------------------------------
(* Claims about gaussian_quadratures.py. *)

\* The integral of c0 + c1 * x over [a, b]: (b - a) times the value at the
\* midpoint (a + b)/2.
ExactIntegral(f, a, b) == RMul(RInt(b - a), FuncValue(f, Rat(a + b, 2)))

\* C2: integrate_legendre(func, n, a, b) is the exact integral of every
\* polynomial func of degree <= 2n - 1; for n = 1 it is
\* (b - a) * func((a + b)/2) for every func of degree <= 1.
C2_ExactForDegreeOne ==
    (quad_fn = "integrate_legendre" /\ quad_pc = "done" /\ order = 1)
        => quad_ret = ExactIntegral(integrand, a_lo, b_hi)

\* C4: for n in 1..5, find_bisection_bounds(n, legendre_polynomial) returns
\* from the first grid it samples, with exactly n brackets in increasing
\* order, each next to the one before it, from -1 to 1, the polynomial's
\* values at the two ends of each having a strictly negative product.
C4_LegendreBrackets ==
    (/\ quad_fn = "find_bisection_bounds"
     /\ polynomial = "legendre_polynomial"
     /\ order \in 1..5)
        => /\ quad_pc = "loop" => Len(Brackets(polynomial, order, k_iter)) = order
           /\ quad_pc = "done" =>
                 /\ Len(bounds) = order
                 /\ bounds[1][1] = RInt(0 - 1)
                 /\ bounds[order][2] = RInt(1)
                 /\ \A i \in 1..order :
                       /\ RLess(bounds[i][1], bounds[i][2])
                       /\ RSign(legendre_polynomial(bounds[i][1], order))
                            * RSign(legendre_polynomial(bounds[i][2], order)) < 0
                 /\ \A i \in 1..(order - 1) : bounds[i][2] = bounds[i + 1][1]

C4_Witness ==
    /\ quad_fn = "find_bisection_bounds"
    /\ polynomial = "legendre_polynomial"
    /\ order = 5
    /\ quad_pc = "done"
    /\ Len(bounds) = 5

\* C7: legendre_polynomial(1, n) = 1 for every n >= 0: the base cases and
\* every value the recurrence appends to the list are 1 at x = 1.
C7_LegendreAtOne ==
    (quad_fn = "legendre_polynomial" /\ abscissa = RInt(1))
        => /\ \A i \in 1..Len(polynomials) : polynomials[i] = RInt(1)
           /\ quad_pc = "done" => quad_ret = RInt(1)

C7_Witness ==
    /\ quad_fn = "legendre_polynomial"
    /\ abscissa = RInt(1)
    /\ order >= 3
    /\ quad_pc = "done"
    /\ Len(polynomials) = order + 1

----------------------------------------------------------------------------
(* Claims about histograms.py. *)

StrictlyIncreasing(q) == \A i \in 1..(Len(q) - 1) : q[i] < q[i + 1]

\* C5: binning_lin and binning_log, their other arguments being valid, raise
\* the range error whenever x_max <= x_min (x_max = x_min included), and every
\* sequence they return has at least 2 strictly increasing edges, the first
\* x_min and the last x_max.
C5_EmptyRangeRejected ==
    bin_pc = "done"
        => /\ (/\ x_max <= x_min
               /\ bin_width > 0
               /\ bin_fn = "binning_log" => (x_min > 0 /\ bin_factor > 1))
                 => bin_err = RangeError
           /\ bin_err = "none"
                 => /\ Len(bins) >= 2
                    /\ StrictlyIncreasing(bins)
                    /\ bins[1] = x_min
                    /\ Last(bins) = x_max

\* The edges x_min, x_min + w, x_min + 2w, ... below x_max, followed by x_max.
Unfused ==
    LET cnt == Cardinality({i \in 0..(x_max - x_min) : x_min + i * bin_width < x_max})
    IN  [i \in 1..(cnt + 1) |-> IF i <= cnt THEN x_min + (i - 1) * bin_width ELSE x_max]

\* C6: for x_max > x_min and bin_width > 0, binning_lin without fusing returns
\* x_min, x_min + w, ... followed by x_max (every bin but the last of width w,
\* the last of width <= w); with fusing it returns that sequence less its
\* second-to-last edge exactly when a partial last bin remains and a full bin
\* precedes it, and that sequence otherwise.
C6_LinEdges ==
    (bin_fn = "binning_lin" /\ bin_pc = "done" /\ x_max > x_min /\ bin_width > 0)
        => /\ bin_err = "none"
           /\ ~fuse_last_bin =>
                 /\ bins = Unfused
                 /\ \A i \in 1..(Len(bins) - 2) : bins[i + 1] - bins[i] = bin_width
                 /\ Last(bins) - bins[Len(bins) - 1] <= bin_width
           /\ fuse_last_bin =>
                 bins = IF /\ (x_max - x_min) % bin_width # 0
                           /\ x_min + bin_width < x_max
                        THEN FuseLast(Unfused)
                        ELSE Unfused

C6_Witness ==
    /\ bin_fn = "binning_lin"
    /\ bin_pc = "done"
    /\ fuse_last_bin
    /\ x_min = 0 /\ x_max = 10 /\ bin_width = 3
    /\ bins = <<0, 3, 6, 10>>

----------------------------------------------------------------------------
(* Claims about the root finders. *)

\* C1: given a valid bracket, bisection and hybrid_secant_bisection both return
\* a value within eps of the root of f in the bracket, also when the hybrid
\* loop ends early on a candidate whose value is exactly zero.
C1_BothWithinEpsOfRoot ==
    pc = "done" => WithinEpsOfRoot(func, ret, eps)

\* C3: both finders raise the invalid-bracket error whenever f(x_left) = 0 or
\* f(x_right) = 0 or f(x_left) * f(x_right) > 0, after the two evaluations at
\* the bounds and before any candidate is evaluated, and return no value.
C3_InvalidBracketFails ==
    (/\ pc # "entry"
     /\ \/ Eval(func, x_left) = 0
        \/ Eval(func, x_right) = 0
        \/ Eval(func, x_left) * Eval(func, x_right) > 0)
        => /\ pc = "error"
           /\ err # "none"
           /\ evals = 2
           /\ iters = 0

C3_Witness ==
    /\ pc = "error"
    /\ alg = "hybrid"
    /\ Eval(func, x_left) # 0
    /\ Eval(func, x_right) = 0

\* C8: in both finders, started with x_left < x_right, whenever the loop
\* condition is evaluated fl = f(xl) and fr = f(xr) are non-zero of opposite
\* sign and x_left <= xl < xr <= x_right; an iteration replaces at most one end
\* of the bracket and never widens it.
C8_BracketAtLoopHead ==
    (x_left < x_right /\ pc = "loop")
        => /\ fl = Eval(func, xl)
           /\ fr = Eval(func, xr)
           /\ fl # 0
           /\ fr # 0
           /\ fl * fr < 0
           /\ x_left <= xl
           /\ xl < xr
           /\ xr <= x_right

C8_IterationNarrows ==
    (x_left < x_right /\ pc = "loop")
        => /\ xl' = xl \/ xr' = xr
           /\ xl <= xl'
           /\ xr' <= xr

C8_BracketInvariant ==
    []C8_BracketAtLoopHead /\ [][C8_IterationNarrows]_vars

C8_Witness ==
    /\ alg = "hybrid"
    /\ pc = "loop"
    /\ x_left < xl
    /\ xr < x_right
    /\ ExceedsEps(x0 - x1, eps)

\* C9: in hybrid_secant_bisection, started with x_left < x_right, every
\* candidate x2 lies in the bracket current at its iteration; when f1 - f0 = 0
\* or the secant point is below xl or above xr the candidate is the midpoint
\* 0.5 * (xl + xr); f is evaluated exactly once per iteration, at x2.
C9_IterationStep ==
    (alg = "hybrid" /\ x_left < x_right /\ pc = "loop" /\ iters' = iters + 1)
        => /\ xl <= x2'
           /\ x2' <= xr
           /\ (\/ f1 - f0 = 0
               \/ SecantPoint(x0, x1, f0, f1) < xl
               \/ SecantPoint(x0, x1, f0, f1) > xr) => x2' = Midpoint(xl, xr)
           /\ evals' = evals + 1
           /\ f2' = Eval(func, x2')

C9_CandidateInBracket == [][C9_IterationStep]_vars

\* After an iteration, a loop head where the next secant point is undefined
\* (equal values at two distinct iterates).
C9_Witness ==
    /\ alg = "hybrid"
    /\ x_left < x_right
    /\ pc = "loop"
    /\ iters >= 1
    /\ ExceedsEps(x0 - x1, eps)
    /\ f1 - f0 = 0

\* C10: bisection terminates: every iteration of its loop makes the bracket
\* narrower (the claim: halves its width) or breaks on a midpoint whose value
\* is exactly zero.
C10_IterationNarrowsOrBreaks ==
    [][(alg = "bisection" /\ pc = "loop" /\ iters' = iters + 1)
          => \/ pc' = "break" /\ f2' = 0
             \/ Abs(xr' - xl') < Abs(xr - xl)]_vars

\* C11: for every valid bracket and every eps > 0 hybrid_secant_bisection
\* terminates: a call that has entered its loop eventually leaves it, on
\* successive iterates with |x0 - x1| <= eps or on a candidate whose value has
\* a positive product with neither bracket end, and returns.
C11_HybridTerminates ==
    (alg = "hybrid" /\ pc = "loop") ~> (pc = "done")

====
